---- MODULE Spec2Model ----
(***************************************************************************)
(* Model of the Electric Objects client's network layer: EO_API            *)
(* (src/eo_api.py) on top of EO_Net (src/eo_net.py).                       *)
(*                                                                         *)
(* One flow of control.  Its position pc is the request_with_retries loop  *)
(* that is waiting for the network: the login-page GET ("token_get"), the  *)
(* login POST ("login_post"), the business request ("api_req"), or none    *)
(* ("idle").  Each action runs the code from one answer of the network to  *)
(* the next network attempt (or to the return of EO_API.make_request).     *)
(*                                                                         *)
(* Time is counted in hundredths of a second, so that the float constants  *)
(* of the source (0.75 s, 4.0 s, the factor 0.20) keep their digits and    *)
(* every jittered delay the model draws is a whole number.                 *)
(*                                                                         *)
(* Four specifications share the module; each moves the variables of one   *)
(* object and leaves the others as they were constructed:                  *)
(*   Spec          EO_API over EO_Net, one draw of random.random()         *)
(*   JitterSpec    EO_Net.jitter on its own and one token fetch, all draws *)
(*   SchedSpec     Scheduler (src/scheduler.py); SchedFairSpec adds weak   *)
(*                 fairness of its steps                                   *)
(*   LegacySpec    ElectricObject (src/eo.py), the one-shot operations     *)
(***************************************************************************)
EXTENDS Integers, Sequences, FiniteSets, TLC

\* ------------------------------------------------------------ constants

\* eo_net.py:9, 0.75 s
MIN_REQUEST_INTERVAL == 75
\* eo_net.py:15, 4.0 s
INITIAL_RETRY_DELAY == 400
\* eo_net.py:21
NUM_RETRIES == 4
\* eo_net.py:26, 0.20 in hundredths
JITTER_FACTOR == 20
\* eo_api.py:8
SIGNIN_INTERVAL_IN_HOURS == 4

\* SIGNIN_INTERVAL_IN_HOURS * 3600.0 seconds (eo_api.py:74), in hundredths
SigninInterval == SIGNIN_INTERVAL_IN_HOURS * 3600 * 100

\* EO_API.endpoints (eo_api.py:27-32)
endpoints == {"user", "devices", "displayed", "favorited"}

\* ------------------------------------------------------------ bounds

\* calls of EO_API.make_request in one run
MaxCalls == 2
\* the clock never passes this value
MaxClock == 1500000
\* attempts in one run that end in an exception or an error status
MaxFailures == 5

\* endpoint names a caller passes: one of the table, one not in it
EndpointNames == {"devices", "nosuch"}
\* random.random() is drawn as q/4 from these q (0.0: the shortest sleep)
RandomDraws == {0}
\* time that passes between two calls: the sign-in interval to the tick, and
\* one tick more
ElapseSteps == {SigninInterval, SigninInterval + 1}

\* ------------------------------------------------------------ values

\* the value None of a response
None == [status |-> 0, body |-> "none"]

\* what session.get/post/put/delete hands back to execute_request; the body is
\* "good" when the token (for a page) or the JSON (for an API answer) parses
Responses ==
    { [status |-> 200, body |-> "good"], [status |-> 200, body |-> "bad"],
      [status |-> 304, body |-> "bad"], [status |-> 404, body |-> "bad"],
      [status |-> 503, body |-> "bad"] }

\* one attempt: a response, or an exception caught in execute_request (None)
AttemptResults == Responses \cup {None}

NoSession == [present |-> FALSE, tok |-> FALSE, login |-> FALSE]
\* requests.Session() with only the User-Agent set
FreshSession == [present |-> TRUE, tok |-> FALSE, login |-> FALSE]

NoCall ==
    [ endpoint |-> "", parse_json |-> FALSE, sessBefore |-> NoSession,
      lstBefore |-> 0, elapsed |-> 0, signins |-> 0, signinAttempts |-> 0,
      apiAttempts |-> 0, postAttempts |-> 0, token |-> "", posted |-> 0,
      css |-> "none",
      result |-> "none" ]

\* what is remembered of the attempts of one request_with_retries: how many,
\* the first answer, whether all were exceptions (None), whether all were
\* exceptions or statuses >= 500, whether none was a 2xx response
NoAttempts ==
    [ n |-> 0, first |-> None, allNone |-> TRUE, allFailed |-> TRUE,
      noSuccess |-> TRUE ]

NoRet ==
    [ done |-> FALSE, n |-> 0, sleeps |-> 0, first |-> None, last |-> None,
      allNone |-> TRUE, priorFailed |-> TRUE, result |-> None ]

Min(a, b) == IF a < b THEN a ELSE b

VARIABLES
    platform,           \* what time.clock() measures: "wall" or "cpu"
    pc,
    session,            \* EO_Net.session
    last_signin_time,   \* EO_API.last_signin_time
    last_request_time,  \* EO_Net.last_request_time
    clock,              \* the value of time.clock()
    since,              \* real time since check_request_rate last returned (capped)
    gap,                \* real time between its last two returns (capped)
    retries, delay,     \* locals of the running request_with_retries
    att,                \* what its attempts got so far
    sleeps,             \* the backoff sleeps it made so far
    rwrRet,             \* the request_with_retries that returned in the last step
    call,               \* the running or last EO_API.make_request
    calls,              \* calls of EO_API.make_request so far
    failures,           \* failed attempts so far
    netGap,             \* real time from check_request_rate's last return to
                        \* the latest session.get/post/put/delete (capped)
    slept,              \* the latest backoff: << delay, time.sleep's argument >>
    jin,                \* jitter applied on its own: << interval, factor, draw >>
    jout,               \* ... and the value it returned
    sched_in,           \* Scheduler: the schedule argument of the constructor
    schedule,           \* self.schedule: sorted times of day << h, m >>
    sjitter,            \* self.jitter, minutes
    spc,                \* where run() is: "none", "constructed", "loop",
                        \* "pending", "callback", "returned"
    now,                \* wall clock, seconds since 00:00 of day 0
    last_time,          \* run()'s last_time
    next_time,          \* run()'s next_time: the nominal event
    wake,               \* next_t: the jittered time given to enterabs
    queue,              \* the events held by self.scheduler
    fired,              \* invocations of scheduled_fn so far
    firedAt,            \* wall clock at the latest invocation
    cycles,             \* iterations of run()'s loop begun so far
    prev_nominal,       \* the nominal event of the iteration before
    nev,                \* the latest next_event call: << today, last_time, result >>
    lpc,                \* ElectricObject (eo.py): "idle", or where the running
                        \* operation waits: "set_url_token", "set_url_post",
                        \* "favorites", "display"
    lcaller,            \* who called favorites()
    signed_in_session,  \* whether self.signed_in_session is not None
    offset,             \* favorites(): offset
    favorites,          \* favorites(): len(favorites)
    lres                \* how the latest operation ended

netVars ==
    << platform, pc, session, last_signin_time, last_request_time, clock,
       since, gap, retries, delay, att, sleeps, rwrRet, call, calls, failures,
       netGap, slept >>

\* ------------------------------------------------------------ time

\* time.sleep(d) on time state t = <<clock, since, gap>>: time.clock() is wall
\* time on Windows and processor time, which a sleep does not use, elsewhere
Sleep(t, d) ==
    << IF platform = "wall" THEN t[1] + d ELSE t[1], Min(t[2] + d, MIN_REQUEST_INTERVAL), t[3] >>

\* EO_Net.check_request_rate
check_request_rate(t) ==
    LET interval == t[1] - last_request_time
        t1 == IF interval < MIN_REQUEST_INTERVAL
              THEN Sleep(t, MIN_REQUEST_INTERVAL - interval)
              ELSE t
    IN  << t1[1], 0, t1[2] >>

jitterVars == << jin, jout >>

NoJitter == << 0, 0, 0 >>

schedVars ==
    << sched_in, schedule, sjitter, spc, now, last_time, next_time, wake,
       queue, fired, firedAt, cycles, prev_nominal, nev >>

legacyVars ==
    << lpc, lcaller, signed_in_session, offset, favorites, lres >>

NoResult ==
    [op |-> "", value |-> "", n |-> 0, raised |-> FALSE, failed |-> FALSE]

UnthrottledAttempt(t) == t

\* execute_request, line 133, before the session is used
BeforeAttempt(t) == check_request_rate(t)

jitterTwiceTheFactor(interval, factor, q) ==
    interval + (interval * factor * (2 * q - 4)) \div 200

\* EO_Net.jitter with random.random() = q/4 and factor in hundredths:
\* interval + interval * factor * (2.0 * random.random() - 1.0)
jitter(interval, factor, q) ==
    interval + (interval * factor * (2 * q - 4)) \div 400

\* ------------------------------------------------------------ request_with_retries

\* `if response:` is Response.__bool__, which is Response.ok: false for None and
\* for every status in [400, 600)
Truthy(response) ==
    response # None /\ ~(response.status >= 400 /\ response.status < 600)

ReturnsResponseNever(response) == FALSE

ReturnsResponseOfAnyStatus(response) == response # None

\* lines 176-178: the response is returned at once
ReturnsResponse(response) == Truthy(response) /\ response.status < 500

RetriesExhaustedEarly(r) == r = NUM_RETRIES - 1

RetriesExhaustedLate(r) == r = NUM_RETRIES + 1

\* line 183
RetriesExhausted(r) == r = NUM_RETRIES

DelayFromJittered(d, jittered_delay) == jittered_delay * 2

\* line 200
NextDelay(d, jittered_delay) == d * 2

\* the loop leaves after this attempt
Returns(response) == ReturnsResponse(response) \/ RetriesExhausted(retries)

\* what it returns then
Returned(response) == IF ReturnsResponse(response) THEN response ELSE None

\* the network may answer `response`, and the count of failed attempts then
MayAnswer(response) == ReturnsResponse(response) \/ failures < MaxFailures
Failed(response) == IF ReturnsResponse(response) THEN failures ELSE failures + 1

\* a transport failure or a server error
Failure(response) == response = None \/ response.status >= 500

Success(response) ==
    response # None /\ response.status >= 200 /\ response.status < 300

\* the attempts a, and one more that got `response`
Seen(a, response) ==
    [ n |-> a.n + 1,
      first |-> IF a.n = 0 THEN response ELSE a.first,
      allNone |-> a.allNone /\ response = None,
      allFailed |-> a.allFailed /\ Failure(response),
      noSuccess |-> a.noSuccess /\ ~Success(response) ]

\* the record of the invocation that returns after answer `response`
RetOf(response) ==
    [ done |-> TRUE, n |-> att.n + 1, sleeps |-> sleeps,
      first |-> IF att.n = 0 THEN response ELSE att.first, last |-> response,
      allNone |-> att.allNone /\ response = None,
      priorFailed |-> att.allFailed, result |-> Returned(response) ]

\* ------------------------------------------------------------ EO_API

signed_in(s) == s.present

NeedsSigninIgnoresTime(s, time_since_signin) == ~signed_in(s)

NeedsSigninAlways(s, time_since_signin) == TRUE

\* check_signin_status, line 74
NeedsSignin(s, time_since_signin) ==
    ~signed_in(s) \/ time_since_signin > SigninInterval

SessionKeptAfterFailedSignin(s) == s

\* signin, lines 60-62: the session after post_with_authenticity failed
SessionAfterFailedSignin(s) == NoSession

SigninStatusAlwaysTrue(s) == TRUE

\* check_signin_status, lines 76-78, after signin() returned
SigninStatus(s) == signed_in(s)

AbortNever(signin_ok) == FALSE

\* make_request, lines 95-96
AbortOnSigninFailure(signin_ok) == ~signin_ok

UnknownEndpointUnchecked(endpoint) == FALSE

\* make_request, lines 98-100
UnknownEndpoint(endpoint) == endpoint \notin endpoints

\* request_authenticity_token, lines 59-73, on what request_with_retries returned
TokenOf(response) ==
    IF ~Truthy(response) THEN ""
    ELSE IF response.status # 200 THEN ""
    ELSE IF response.body = "good" THEN "tok" ELSE ""

PostsWithoutToken(token) == FALSE

\* post_with_authenticity, lines 82-83: with no token, return None
AbortsWithoutToken(token) == token = ""

LastSigninTimeAlwaysSet(success, lst, t) == t

\* signin, lines 60-63: last_signin_time when signin() returns at time t
LastSigninTimeAfter(success, lst, t) == IF success = None THEN lst ELSE t

\* post_payload, lines 99-107
PostResult(response) ==
    IF Truthy(response) /\ response.status = 200 THEN response ELSE None

NetResultRaisingOnBadJSON(response, parse_json) ==
    IF response = None THEN "None"
    ELSE IF response.status < 200 \/ response.status >= 300 THEN "None"
    ELSE IF ~parse_json THEN "response"
    ELSE IF response.body = "good" THEN "json" ELSE "ValueError"

\* EO_Net.make_request, lines 212-226
NetResult(response, parse_json) ==
    IF response = None THEN "None"
    ELSE IF response.status < 200 \/ response.status >= 300 THEN "None"
    ELSE IF ~parse_json THEN "response"
    ELSE IF response.body = "good" THEN "json" ELSE "None"

\* ------------------------------------------------------------ the flow

\* the attempt counted in the call's record
Counted(c) ==
    IF pc = "api_req" THEN [c EXCEPT !.apiAttempts = @ + 1]
    ELSE IF pc = "login_post"
    THEN [c EXCEPT !.signinAttempts = @ + 1, !.postAttempts = @ + 1]
    ELSE [c EXCEPT !.signinAttempts = @ + 1]

\* the flow goes on at pc1 with a request_with_retries not yet started
\* (lines 170-171), or is back in the caller when pc1 = "idle"
Goes(pc1, s, lst, t, c) ==
    /\ pc' = pc1
    /\ session' = s
    /\ last_signin_time' = lst
    /\ clock' = t[1]
    /\ since' = t[2]
    /\ gap' = t[3]
    /\ call' = c
    /\ retries' = 0
    /\ delay' = INITIAL_RETRY_DELAY
    /\ att' = NoAttempts
    /\ sleeps' = 0
    /\ slept' = << 0, 0 >>
    /\ UNCHANGED << platform, last_request_time >>

\* EO_API.make_request from line 95 on, check_signin_status having returned
\* signin_ok; EO_Net.make_request starts the business request
AfterCheck(c, s, lst, t, signin_ok) ==
    LET c1 == [c EXCEPT !.css = IF signin_ok THEN "True" ELSE "False"]
    IN  IF AbortOnSigninFailure(signin_ok)
        THEN Goes("idle", s, lst, t, [c1 EXCEPT !.result = "None"])
        ELSE IF UnknownEndpoint(c.endpoint)
        THEN Goes("idle", s, lst, t, [c1 EXCEPT !.result = "None"])
        ELSE Goes("api_req", s, lst, t, c1)

\* check_signin_status, lines 76-78, signin() having returned
AfterSignin(c, s, lst, t) == AfterCheck(c, s, lst, t, SigninStatus(s))

\* EO_API.make_request(endpoint, parse_json=...) up to its first network attempt
make_request(endpoint, parse_json) ==
    /\ pc = "idle"
    /\ calls < MaxCalls
    /\ calls' = calls + 1
    /\ rwrRet' = NoRet
    /\ UNCHANGED << failures, netGap >>
    /\ LET time_since_signin == clock - last_signin_time
           t == << clock, since, gap >>
           c == [NoCall EXCEPT !.endpoint = endpoint, !.parse_json = parse_json,
                               !.sessBefore = session,
                               !.lstBefore = last_signin_time,
                               !.elapsed = time_since_signin,
                               !.result = "pending"]
       IN  IF NeedsSignin(session, time_since_signin)
           THEN \* signin() to request_authenticity_token, line 57
                Goes("token_get", FreshSession, last_signin_time,
                     check_request_rate(t), [c EXCEPT !.signins = @ + 1])
           ELSE AfterCheck(c, session, last_signin_time, t, TRUE)

\* one attempt of request_with_retries that is followed by a retry:
\* execute_request, then lines 183-202
Retry(response, q) ==
    /\ pc # "idle"
    /\ ~Returns(response)
    /\ MayAnswer(response)
    /\ failures' = Failed(response)
    /\ LET t0 == << clock, since, gap >>
           t1 == BeforeAttempt(t0)
           jittered_delay == jitter(delay, JITTER_FACTOR, q)
           t2 == Sleep(t1, jittered_delay)
       IN  /\ netGap' = t1[2]
           /\ slept' = << delay, jittered_delay >>
           /\ clock' = t2[1]
           /\ since' = t2[2]
           /\ gap' = t2[3]
           /\ delay' = NextDelay(delay, jittered_delay)
           /\ retries' = retries + 1
           /\ att' = Seen(att, response)
           /\ sleeps' = sleeps + 1
           /\ call' = Counted(call)
           /\ rwrRet' = NoRet
           /\ UNCHANGED << platform, pc, session, last_signin_time,
                           last_request_time, calls >>

\* the last attempt of the login-page GET: request_authenticity_token and
\* post_with_authenticity to post_payload's line 97, or signin()'s failure
TokenReturns(response) ==
    /\ pc = "token_get"
    /\ Returns(response)
    /\ MayAnswer(response)
    /\ failures' = Failed(response)
    /\ rwrRet' = RetOf(response)
    /\ UNCHANGED calls
    /\ netGap' = BeforeAttempt(<< clock, since, gap >>)[2]
    /\ LET t1 == BeforeAttempt(<< clock, since, gap >>)
           authenticity_token == TokenOf(Returned(response))
           c == [Counted(call) EXCEPT !.token = authenticity_token]
       IN  IF AbortsWithoutToken(authenticity_token)
           THEN AfterSignin(c, SessionAfterFailedSignin(session),
                            last_signin_time, t1)
           ELSE Goes("login_post", [session EXCEPT !.tok = TRUE],
                     last_signin_time, check_request_rate(t1), c)

\* the last attempt of the login POST: post_payload, signin() lines 59-63,
\* check_signin_status and make_request
LoginReturns(response) ==
    /\ pc = "login_post"
    /\ Returns(response)
    /\ MayAnswer(response)
    /\ failures' = Failed(response)
    /\ rwrRet' = RetOf(response)
    /\ UNCHANGED calls
    /\ netGap' = BeforeAttempt(<< clock, since, gap >>)[2]
    /\ LET t1 == BeforeAttempt(<< clock, since, gap >>)
           success == PostResult(Returned(response))
           c == [Counted(call) EXCEPT !.posted = Returned(response).status]
           lst == LastSigninTimeAfter(success, last_signin_time, t1[1])
       IN  IF success = None
           THEN AfterSignin(c, SessionAfterFailedSignin(session), lst, t1)
           ELSE AfterSignin(c, [session EXCEPT !.login = TRUE], lst, t1)

\* the last attempt of the business request: EO_Net.make_request returns
ApiReturns(response) ==
    /\ pc = "api_req"
    /\ Returns(response)
    /\ MayAnswer(response)
    /\ failures' = Failed(response)
    /\ rwrRet' = RetOf(response)
    /\ UNCHANGED calls
    /\ netGap' = BeforeAttempt(<< clock, since, gap >>)[2]
    /\ LET t1 == BeforeAttempt(<< clock, since, gap >>)
           c == Counted(call)
       IN  Goes("idle", session, last_signin_time, t1,
                [c EXCEPT !.result = NetResult(Returned(response), c.parse_json)])

\* time passes between two calls; processor time may or may not
Elapse(d) ==
    /\ pc = "idle"
    /\ clock + d <= MaxClock
    /\ clock' \in (IF platform = "wall" THEN {clock + d} ELSE {clock, clock + d})
    /\ since' = Min(since + d, MIN_REQUEST_INTERVAL)
    /\ rwrRet' = NoRet
    /\ UNCHANGED << platform, pc, session, last_signin_time, last_request_time,
                    gap, retries, delay, att, sleeps, call, calls, failures,
                    netGap, slept >>

NetInit ==
    /\ platform \in {"wall", "cpu"}
    /\ pc = "idle"
    /\ session = NoSession
    /\ last_signin_time = 0
    /\ last_request_time = 0
    /\ clock = 0
    /\ since = MIN_REQUEST_INTERVAL
    /\ gap = MIN_REQUEST_INTERVAL
    /\ retries = 0
    /\ delay = INITIAL_RETRY_DELAY
    /\ att = NoAttempts
    /\ sleeps = 0
    /\ rwrRet = NoRet
    /\ call = NoCall
    /\ calls = 0
    /\ failures = 0
    /\ netGap = 0
    /\ slept = << 0, 0 >>

\* jitter has not been applied on its own
JitterIdle ==
    /\ jin = NoJitter
    /\ jout = 0

\* run() has not been called: nothing planned, entered or fired
NotRun ==
    /\ last_time = 0
    /\ next_time = 0
    /\ wake = 0
    /\ queue = << >>
    /\ fired = 0
    /\ firedAt = 0
    /\ cycles = 0
    /\ prev_nominal = 0
    /\ nev = << 0, 0, 0 >>

\* no Scheduler has been constructed
SchedulerIdle ==
    /\ sched_in = << >>
    /\ schedule = << >>
    /\ sjitter = 0
    /\ spc = "none"
    /\ now = 0
    /\ NotRun

\* ElectricObject.__init__, and no operation called yet
LegacyIdle ==
    /\ lpc = "idle"
    /\ lcaller = ""
    /\ signed_in_session = FALSE
    /\ offset = 0
    /\ favorites = 0
    /\ lres = NoResult

\* the variables the EO_API object does not own
otherVars == << jitterVars, schedVars, legacyVars >>

Init ==
    /\ NetInit
    /\ JitterIdle
    /\ SchedulerIdle
    /\ LegacyIdle

Next ==
    \/ \E e \in EndpointNames, pj \in BOOLEAN :
           make_request(e, pj) /\ UNCHANGED otherVars
    \/ \E r \in AttemptResults, q \in RandomDraws :
           Retry(r, q) /\ UNCHANGED otherVars
    \/ \E r \in AttemptResults : TokenReturns(r) /\ UNCHANGED otherVars
    \/ \E r \in AttemptResults : LoginReturns(r) /\ UNCHANGED otherVars
    \/ \E r \in AttemptResults : ApiReturns(r) /\ UNCHANGED otherVars
    \/ \E d \in ElapseSteps : Elapse(d) /\ UNCHANGED otherVars

vars == << netVars, otherVars >>

Spec == Init /\ [][Next]_vars

\* ------------------------------------------------------------ claims

ClientError(response) == response.status >= 400 /\ response.status < 500

\* a call of EO_API.make_request has been made
CallMade == call.result # "none"

\* C1: when the first attempt of request_with_retries gets a 4xx response,
\* execute_request is called exactly once, no backoff sleep happens and that
\* response is returned as it is.
C1_ClientErrorIsTerminal ==
    /\ att.n >= 1 => ~ClientError(att.first)
    /\ (rwrRet.done /\ ClientError(rwrRet.first)) =>
          /\ rwrRet.n = 1
          /\ rwrRet.sleeps = 0
          /\ rwrRet.result = rwrRet.first

\* C2: the returns of any two consecutive check_request_rate() calls are at
\* least MIN_REQUEST_INTERVAL apart.
C2_ThrottleSpacing == gap >= MIN_REQUEST_INTERVAL

\* C3: request_with_retries never makes more than NUM_RETRIES + 1 attempts, and
\* when every attempt is a transport failure it makes exactly NUM_RETRIES + 1 of
\* them, sleeps NUM_RETRIES times and returns None.
C3_AllFailuresExhaust ==
    /\ att.n <= NUM_RETRIES
    /\ rwrRet.n <= NUM_RETRIES + 1
    /\ (rwrRet.done /\ rwrRet.allNone) =>
          /\ rwrRet.n = NUM_RETRIES + 1
          /\ rwrRet.sleeps = NUM_RETRIES
          /\ rwrRet.result = None

C3_Witness ==
    rwrRet.done /\ rwrRet.allNone /\ rwrRet.n = NUM_RETRIES + 1

\* C4: when attempts 1..k-1 are transport failures or statuses >= 500 and
\* attempt k gets a 2xx response, request_with_retries stops there: it has made
\* k <= NUM_RETRIES + 1 attempts and k-1 sleeps, returns the response of attempt
\* k, and makes no attempt after a success.
C4_SuccessOnAttemptK ==
    /\ att.noSuccess
    /\ (rwrRet.done /\ rwrRet.priorFailed /\ Success(rwrRet.last)) =>
          /\ rwrRet.result = rwrRet.last
          /\ rwrRet.n <= NUM_RETRIES + 1
          /\ rwrRet.sleeps = rwrRet.n - 1

C4_Witness ==
    /\ rwrRet.done /\ rwrRet.priorFailed /\ Success(rwrRet.last)
    /\ rwrRet.n = NUM_RETRIES + 1
    /\ rwrRet.result = rwrRet.last

\* C5: a make_request for an endpoint name that is not in the table attempts no
\* sign-in, issues no network request and leaves the session and the last
\* sign-in time as they were.
C5_UnknownEndpointFirst ==
    (CallMade /\ call.endpoint \notin endpoints) =>
        /\ call.signins = 0
        /\ call.signinAttempts = 0
        /\ call.apiAttempts = 0
        /\ session = call.sessBefore
        /\ last_signin_time = call.lstBefore

\* C5 as amended: a make_request for an endpoint name that is not in the table
\* issues no request to a business endpoint and returns None; a sign-in may
\* have been made before.
C5_UnknownEndpointNoBusinessRequest ==
    (CallMade /\ call.endpoint \notin endpoints) =>
        /\ call.apiAttempts = 0
        /\ pc # "api_req"
        /\ pc = "idle" => call.result = "None"

C5_Witness ==
    /\ pc = "idle" /\ call.endpoint \notin endpoints
    /\ call.signins = 1 /\ call.css = "True" /\ call.result = "None"
    /\ session # call.sessBefore

\* C6: check_signin_status calls signin() whenever the time since the last
\* sign-in has reached the interval (elapsed >= interval).
C6_SigninAtInterval ==
    (CallMade /\ call.elapsed >= SigninInterval) => call.signins = 1

\* C6 as amended: check_signin_status calls signin() whenever the time since
\* the last sign-in exceeds the interval (elapsed > interval).
C6_SigninAfterInterval ==
    (CallMade /\ call.elapsed > SigninInterval) => call.signins = 1

C6_Witness ==
    /\ CallMade /\ call.sessBefore.present
    /\ call.elapsed > SigninInterval /\ call.signins = 1

\* C7: with a session present and less than the interval since the last
\* sign-in, check_signin_status returns True without calling signin(): no
\* request goes to the sign-in URL, and the session and last_signin_time stay
\* as they were.
C7_NoSigninWithinInterval ==
    (CallMade /\ call.sessBefore.present /\ call.elapsed < SigninInterval) =>
        /\ call.css = "True"
        /\ call.signins = 0
        /\ call.signinAttempts = 0
        /\ session = call.sessBefore
        /\ last_signin_time = call.lstBefore

C7_Witness ==
    /\ CallMade /\ call.sessBefore.present /\ call.elapsed < SigninInterval
    /\ call.css = "True" /\ call.signins = 0

\* C8: with no session, check_signin_status calls signin() exactly once, and
\* returns True if the token was found and the login POST answered 200, False
\* otherwise.
C8_SignedOutSignsInOnce ==
    (CallMade /\ ~call.sessBefore.present) =>
        /\ call.signins = 1
        /\ call.css = "True" => (call.token # "" /\ call.posted = 200)
        /\ call.css = "False" => (call.token = "" \/ call.posted # 200)
        /\ pc \in {"idle", "api_req"} => call.css # "none"

C8_Witness ==
    /\ CallMade /\ ~call.sessBefore.present /\ call.signins = 1
    /\ call.css = "False" /\ call.token # "" /\ call.posted # 200

\* C9: when check_signin_status returns False, make_request returns None and
\* issues no request to the business endpoint.
C9_NoRequestWithoutSignin ==
    call.css = "False" =>
        /\ pc = "idle"
        /\ call.result = "None"
        /\ call.apiAttempts = 0

C9_Witness ==
    /\ call.css = "False" /\ call.endpoint \in endpoints
    /\ call.signinAttempts > 0 /\ call.result = "None"

\* C10: a session that is stored is always one whose token fetch gave a token
\* and whose login POST answered 200.
C10_SessionAlwaysUsable ==
    session.present => (session.tok /\ session.login)

\* C10 as amended: whenever signin() is not running, a session that is stored
\* is one whose token fetch gave a token and whose login POST answered 200.
C10_SessionUsableOutsideSignin ==
    (pc \in {"idle", "api_req"} /\ session.present) =>
        (session.tok /\ session.login)

C10_Witness ==
    /\ pc = "idle" /\ call.signins = 1 /\ call.token # ""
    /\ call.posted # 200 /\ ~session.present

\* ------------------------------------------------------------------------
\* EO_Net.jitter on its own, and the backoff of request_with_retries with
\* every draw of random.random() (in quarters: 0, 0.25, 0.5, 0.75)

JitterValues == {200, 400, 800, 1600, 3200, 6400}

JitterFactors == {0, JITTER_FACTOR, 50, 100}

AllDraws == {0, 1, 2, 3}

\* jitter(interval, factor) is called and returns
ApplyJitter(interval, factor, q) ==
    /\ pc = "idle"
    /\ calls = 0
    /\ jin' = << interval, factor, q >>
    /\ jout' = jitter(interval, factor, q)
    /\ UNCHANGED << netVars, schedVars, legacyVars >>

JitterNext ==
    \/ \E v \in JitterValues, f \in JitterFactors, q \in AllDraws :
           ApplyJitter(v, f, q)
    \/ \E e \in EndpointNames, pj \in BOOLEAN :
           /\ jin = NoJitter /\ calls = 0
           /\ make_request(e, pj) /\ UNCHANGED otherVars
    \/ \E r \in AttemptResults, q \in AllDraws :
           pc = "token_get" /\ Retry(r, q) /\ UNCHANGED otherVars
    \/ \E r \in AttemptResults : TokenReturns(r) /\ UNCHANGED otherVars

JitterSpec == Init /\ [][JitterNext]_vars

\* ------------------------------------------------------------------------
\* Scheduler (scheduler.py).  Wall-clock times and datetimes are seconds
\* since 00:00 of day 0; a time of day is << hour, minute >>.

MaxCycles == 3

Day == 24 * 60 * 60

\* one part of t.split(":") : int() returns v, or raises ValueError
Num(n) == [int |-> TRUE, v |-> n]

NaN == [int |-> FALSE, v |-> 0]

\* "hh:mm"
T(h, m) == << Num(h), Num(m) >>

\* line 48: (h, m) = map(int, t.split(":")) raises nothing
Unpacks(t) ==
    /\ \A i \in 1..Len(t) : t[i].int
    /\ Len(t) = 2

InRangeUpTo24(h, m) == ~(h < 0 \/ h > 24 \/ m < 0 \/ m > 59)

\* lines 49-50
InRange(h, m) == ~(h < 0 \/ h > 23 \/ m < 0 \/ m > 59)

\* lines 46-53: the entry is appended
Accepted(t) == Unpacks(t) /\ InRange(t[1].v, t[2].v)

\* datetime.time's order
Before(a, b) == a[1] < b[1] \/ (a[1] = b[1] /\ a[2] < b[2])

RECURSIVE Insert(_, _)
Insert(s, t) ==
    IF s = << >> THEN << t >>
    ELSE IF Before(t, Head(s)) THEN << t >> \o s
    ELSE << Head(s) >> \o Insert(Tail(s), t)

Unsorted(s) == s

\* line 54: self.schedule.sort()
RECURSIVE Sort(_)
Sort(s) == IF s = << >> THEN << >> ELSE Insert(Sort(Tail(s)), Head(s))

ingest_schedule(in) ==
    LET kept == SelectSeq(in, Accepted)
    IN  Sort([i \in 1..Len(kept) |-> << kept[i][1].v, kept[i][2].v >>])

\* datetime.datetime.combine(day, t)
combine(day, t) == day * Day + t[1] * 3600 + t[2] * 60

\* datetime.date.today()
Today(t) == t \div Day

\* next_event_after returns None
NoEvent == -1

next_event_after_or_at(day, last, sched) ==
    LET later == {i \in 1..Len(sched) : combine(day, sched[i]) >= last}
    IN  IF later = {} THEN NoEvent
        ELSE combine(day, sched[CHOOSE i \in later : \A j \in later : i <= j])

next_event_after(day, last, sched) ==
    LET later == {i \in 1..Len(sched) : combine(day, sched[i]) > last}
    IN  IF later = {} THEN NoEvent
        ELSE combine(day, sched[CHOOSE i \in later : \A j \in later : i <= j])

next_event(today, last, sched) ==
    LET event == next_event_after(today, last, sched)
    IN  IF event = NoEvent THEN combine(today + 1, sched[1]) ELSE event

add_jitter_doubled(atime, minutes, q) == atime + 2 * minutes * 15 * (2 * q - 4)

\* add_jitter with random.random() = q/4, then time.mktime(timetuple()):
\* atime + minutes * (2 * q/4 - 1) * 60 seconds, a whole number of seconds
add_jitter(atime, minutes, q) == atime + minutes * 15 * (2 * q - 4)

RunNeverStarts(sched) == TRUE

\* line 87: if not self.schedule
NoValidSchedule(sched) == sched = << >>

Max(a, b) == IF a > b THEN a ELSE b

RunsAtDueTime(t, due) == due

\* sched.scheduler.run(): the time at which the event due at `due` is run,
\* the clock being at t: delayfunc(due - t) if t < due, else at once
RunsAt(t, due) == Max(t, due)

PlansDuringCallback(p) == p \in {"loop", "callback"}

\* line 100 has returned: self.scheduler.run() ran the callback and found the
\* queue empty
SchedulerRunReturned(p) == p = "loop"

\* run() up to the loop
Run ==
    /\ spc = "constructed"
    /\ IF NoValidSchedule(schedule)
       THEN spc' = "returned" /\ UNCHANGED last_time
       ELSE spc' = "loop" /\ last_time' = now
    /\ UNCHANGED << sched_in, schedule, sjitter, now, next_time, wake, queue,
                    fired, firedAt, cycles, prev_nominal, nev >>
    /\ UNCHANGED << netVars, jitterVars, legacyVars >>

\* one iteration of the loop up to enterabs
Plan(q) ==
    /\ SchedulerRunReturned(spc)
    /\ cycles < MaxCycles
    /\ LET event == next_event(Today(now), last_time, schedule)
           next_t == add_jitter(event, sjitter, q)
       IN  /\ nev' = << Today(now), last_time, event >>
           /\ next_time' = event
           /\ last_time' = event
           /\ wake' = next_t
           /\ queue' = Append(queue, next_t)
    /\ prev_nominal' = next_time
    /\ cycles' = cycles + 1
    /\ spc' = "pending"
    /\ UNCHANGED << sched_in, schedule, sjitter, now, fired, firedAt >>
    /\ UNCHANGED << netVars, jitterVars, legacyVars >>

\* self.scheduler.run(): delay until the event's time, if that is still ahead,
\* and call scheduled_fn
Fire ==
    /\ spc = "pending"
    /\ queue # << >>
    /\ now' = RunsAt(now, Head(queue))
    /\ firedAt' = RunsAt(now, Head(queue))
    /\ queue' = Tail(queue)
    /\ fired' = fired + 1
    /\ spc' = "callback"
    /\ UNCHANGED << sched_in, schedule, sjitter, last_time, next_time, wake,
                    cycles, prev_nominal, nev >>
    /\ UNCHANGED << netVars, jitterVars, legacyVars >>

\* scheduled_fn returns after d seconds; the queue is empty and
\* self.scheduler.run() returns
CallbackReturns(d) ==
    /\ spc = "callback"
    /\ now' = now + d
    /\ spc' = "loop"
    /\ UNCHANGED << sched_in, schedule, sjitter, last_time, next_time, wake,
                    queue, fired, firedAt, cycles, prev_nominal, nev >>
    /\ UNCHANGED << netVars, jitterVars, legacyVars >>

ScheduleInputs ==
    { << T(7, 0), T(12, 0) >>,
      << T(12, 0), T(7, 0) >>,
      << T(9, 0) >>,
      << T(0, 1) >>,
      << T(9, 0), T(9, 0) >>,
      << T(25, 0), T(12, 0), << Num(7) >>, T(7, 30), T(-1, 0),
         << Num(7), Num(0), Num(0) >> >>,
      << T(24, 0), T(7, 60), << Num(7) >>, << NaN, Num(0) >> >>,
      << >> }

Jitters == {0, 2, 10}

StartTimes ==
    { combine(0, << 8, 0 >>), combine(0, << 8, 59 >>),
      combine(0, << 13, 0 >>), combine(0, << 23, 58 >>) }

CallbackDurations == {5, 6 * 3600}

\* the state after Scheduler(schedule, scheduled_fn, (), schedule_jitter)
SchedInit ==
    /\ NetInit
    /\ platform = "wall"
    /\ JitterIdle
    /\ LegacyIdle
    /\ sched_in \in ScheduleInputs
    /\ schedule = ingest_schedule(sched_in)
    /\ sjitter \in Jitters
    /\ spc = "constructed"
    /\ now \in StartTimes
    /\ NotRun

SchedNext ==
    \/ Run
    \/ \E q \in AllDraws : Plan(q)
    \/ Fire
    \/ \E d \in CallbackDurations : CallbackReturns(d)

SchedSpec == SchedInit /\ [][SchedNext]_vars

\* time.sleep returns and scheduled_fn returns: run() takes its next step
SchedFairSpec == SchedSpec /\ WF_vars(SchedNext)

\* ------------------------------------------------------------------------
\* ElectricObject (eo.py), the one-shot operations.  Each network exchange
\* is taken by what request_with_retries returned for it; a JSON list is
\* taken by its length.

MAX_FAVORITES_FOR_DISPLAY == 200

NUM_FAVORITES_PER_REQUEST == 30

\* what request_with_retries (lines 225-277) can return
RetriesReturn == {Returned(r) : r \in AttemptResults}

\* len() of the list an answer's JSON may hold
PageSizes == {0, 25, NUM_FAVORITES_PER_REQUEST}

\* request_authenticity_token, lines 105-119
eo_request_authenticity_token(response) ==
    IF ~Truthy(response) THEN ""
    ELSE IF response.status # 200 THEN ""
    ELSE IF response.body = "good" THEN "tok" ELSE ""

\* post_payload, lines 138-146, the token not being empty
eo_post_payload(response) ==
    IF Truthy(response) /\ response.status = 200 THEN response ELSE None

\* make_request, lines 292-302
eo_make_request(signin_ok, response) ==
    IF ~signin_ok THEN None ELSE response

\* make_JSON_request, lines 306-317: the length of the list returned, n being
\* the length of the list in the answer
make_JSON_request(signin_ok, response, n) ==
    LET r == eo_make_request(signin_ok, response)
    IN  IF r = None THEN 0
        ELSE IF r.status # 200 THEN 0
        ELSE IF r.body = "good" THEN n ELSE 0

\* the operation returns `value`
Return(op, value, n, failed) ==
    /\ lres' = [op |-> op, value |-> value, n |-> n, raised |-> FALSE,
                failed |-> failed]
    /\ lpc' = "idle"

\* the operation raises `error`
Raise(op, error) ==
    /\ lres' = [op |-> op, value |-> error, n |-> 0, raised |-> TRUE,
                failed |-> TRUE]
    /\ lpc' = "idle"

\* set_url, lines 437-444, up to the token request
set_url(signin_ok, response, n) ==
    /\ lpc = "idle"
    /\ signed_in_session' = signin_ok
    /\ IF make_JSON_request(signin_ok, response, n) = 0
       THEN Return("set_url", "0", 0, TRUE)
       ELSE lpc' = "set_url_token" /\ UNCHANGED lres
    /\ UNCHANGED << lcaller, offset, favorites >>
    /\ UNCHANGED << netVars, jitterVars, schedVars >>

\* set_url, lines 444-451, the token request returning: with no token
\* post_payload returns None (line 133) and r.status_code is evaluated
set_url_token(response) ==
    /\ lpc = "set_url_token"
    /\ IF eo_request_authenticity_token(response) = ""
       THEN Raise("set_url", "AttributeError")
       ELSE lpc' = "set_url_post" /\ UNCHANGED lres
    /\ UNCHANGED << lcaller, signed_in_session, offset, favorites >>
    /\ UNCHANGED << netVars, jitterVars, schedVars >>

\* set_url, lines 450-451, the POST returning
set_url_post(response) ==
    /\ lpc = "set_url_post"
    /\ LET r == eo_post_payload(response)
       IN  IF r = None
           THEN Raise("set_url", "AttributeError")
           ELSE Return("set_url",
                       IF r.status = 200 THEN "True" ELSE "False", 0, FALSE)
    /\ UNCHANGED << lcaller, signed_in_session, offset, favorites >>
    /\ UNCHANGED << netVars, jitterVars, schedVars >>

\* favorites() is called on its own, lines 342-343
favorites_begin ==
    /\ lpc = "idle"
    /\ lpc' = "favorites"
    /\ lcaller' = "favorites"
    /\ offset' = 0
    /\ favorites' = 0
    /\ UNCHANGED << signed_in_session, lres >>
    /\ UNCHANGED << netVars, jitterVars, schedVars >>

\* display_random_favorite, lines 416-423, up to the call of favorites()
display_random_favorite(signin_ok, response, n) ==
    /\ lpc = "idle"
    /\ signed_in_session' = signin_ok
    /\ IF make_JSON_request(signin_ok, response, n) = 0
       THEN /\ Return("display_random_favorite", "0", 0, TRUE)
            /\ UNCHANGED << lcaller, offset, favorites >>
       ELSE /\ lpc' = "favorites"
            /\ lcaller' = "display_random_favorite"
            /\ offset' = 0
            /\ favorites' = 0
            /\ UNCHANGED lres
    /\ UNCHANGED << netVars, jitterVars, schedVars >>

\* favorites() returns a list of length n to its caller: lines 424-429 of
\* display_random_favorite
FavoritesReturn(n) ==
    IF lcaller = "favorites" THEN Return("favorites", "list", n, FALSE)
    ELSE IF n = 0 THEN Return("display_random_favorite", "0", 0, TRUE)
    ELSE lpc' = "display" /\ UNCHANGED lres

\* one iteration of the loop of favorites(), lines 345-358
favorites_page(signin_ok, response, n) ==
    /\ lpc = "favorites"
    /\ signed_in_session' = signin_ok
    /\ UNCHANGED lcaller
    /\ LET result_JSON == make_JSON_request(signin_ok, response, n)
           extended == favorites + result_JSON
       IN  IF result_JSON = 0
           THEN FavoritesReturn(favorites) /\ UNCHANGED << offset, favorites >>
           ELSE IF result_JSON < NUM_FAVORITES_PER_REQUEST
           THEN FavoritesReturn(extended) /\ favorites' = extended
                /\ UNCHANGED offset
           ELSE IF extended > MAX_FAVORITES_FOR_DISPLAY
           THEN /\ FavoritesReturn(MAX_FAVORITES_FOR_DISPLAY)
                /\ favorites' = MAX_FAVORITES_FOR_DISPLAY
                /\ UNCHANGED offset
           ELSE /\ favorites' = extended
                /\ offset' = offset + NUM_FAVORITES_PER_REQUEST
                /\ UNCHANGED << lpc, lres >>
    /\ UNCHANGED << netVars, jitterVars, schedVars >>

\* display_random_favorite, lines 430-431: display() returns and its result
\* is dropped
display(signin_ok, response) ==
    /\ lpc = "display"
    /\ signed_in_session' = signin_ok
    /\ LET r == eo_make_request(signin_ok, response)
       IN  Return("display_random_favorite", "fav_id", 0,
                  r = None \/ r.status # 200)
    /\ UNCHANGED << lcaller, offset, favorites >>
    /\ UNCHANGED << netVars, jitterVars, schedVars >>

LegacyInit ==
    /\ NetInit
    /\ platform = "wall"
    /\ JitterIdle
    /\ SchedulerIdle
    /\ LegacyIdle

LegacyNext ==
    \/ \E ok \in BOOLEAN, r \in RetriesReturn, n \in PageSizes :
           set_url(ok, r, n)
    \/ \E r \in RetriesReturn : set_url_token(r)
    \/ \E r \in RetriesReturn : set_url_post(r)
    \/ favorites_begin
    \/ \E ok \in BOOLEAN, r \in RetriesReturn, n \in PageSizes :
           display_random_favorite(ok, r, n)
    \/ \E ok \in BOOLEAN, r \in RetriesReturn, n \in PageSizes :
           favorites_page(ok, r, n)
    \/ \E ok \in BOOLEAN, r \in RetriesReturn : display(ok, r)

LegacySpec == LegacyInit /\ [][LegacyNext]_vars

\* ------------------------------------------------------------------------

\* C11: every session.get/post/put/delete (first attempt, retry, token-fetch
\* GET, login POST) is made at the return of check_request_rate(): no real time
\* passes between the throttle's return and the network call of that attempt.
C11_ThrottleBeforeEveryAttempt ==
    netGap = 0

C11_Witness ==
    /\ pc = "login_post" /\ att.n >= 2 /\ sleeps >= 1
    /\ call.signinAttempts >= 3 /\ netGap = 0

\* C15: the delay recorded for the r-th retry (r = 0, 1, ...) is exactly
\* INITIAL_RETRY_DELAY * 2^r; the jittered value is the argument of time.sleep
\* only and never enters the next delay.
C15_DelayDoublesUnjittered ==
    /\ retries = sleeps
    /\ delay = INITIAL_RETRY_DELAY * 2^retries
    /\ retries = 0 => slept = << 0, 0 >>
    /\ retries > 0 =>
        /\ slept[1] = INITIAL_RETRY_DELAY * 2^(retries - 1)
        /\ \E q \in RandomDraws :
               slept[2] = jitter(slept[1], JITTER_FACTOR, q)

C15_Witness ==
    /\ retries = NUM_RETRIES
    /\ delay = INITIAL_RETRY_DELAY * 2^NUM_RETRIES
    /\ slept[1] = INITIAL_RETRY_DELAY * 2^(NUM_RETRIES - 1)
    /\ slept[2] # slept[1]

\* C16: for every value > 0 and factor in [0, 1], jitter(value, factor) lies in
\* [value * (1 - factor), value * (1 + factor)] and factor 0 returns the value
\* itself; so every backoff sleep for a recorded delay d lies in
\* [d * (1 - JITTER_FACTOR), d * (1 + JITTER_FACTOR)].
C16_JitterWithinFactor ==
    /\ jin # NoJitter =>
        /\ jin[1] * (100 - jin[2]) <= 100 * jout
        /\ 100 * jout <= jin[1] * (100 + jin[2])
        /\ jin[2] = 0 => jout = jin[1]
    /\ slept # << 0, 0 >> =>
        /\ slept[1] * (100 - JITTER_FACTOR) <= 100 * slept[2]
        /\ 100 * slept[2] <= slept[1] * (100 + JITTER_FACTOR)

C16_Witness ==
    /\ jin # NoJitter /\ jin[2] = 100 /\ jin[3] = 0
    /\ 100 * jout = jin[1] * (100 - jin[2])

\* C12: with a non-empty table and last_time on today's date, next_event
\* returns the earliest scheduled date-time strictly greater than last_time:
\* the first of today's slots later than it, else the first slot of tomorrow;
\* a next event always exists.
C12_NextEventIsEarliestLater ==
    (cycles >= 1 /\ Today(nev[2]) = nev[1]) =>
        LET slots == {combine(d, schedule[i]) :
                         d \in {nev[1], nev[1] + 1}, i \in 1..Len(schedule)}
            later == {x \in slots : x > nev[2]}
        IN  /\ nev[3] \in later
            /\ \A x \in later : nev[3] <= x

C12_Witness ==
    /\ schedule = << << 7, 0 >>, << 12, 0 >> >>
    /\ cycles = 2
    /\ nev = << 0, combine(0, << 12, 0 >>), combine(1, << 7, 0 >>) >>

\* C13: when the schedule list is empty or holds only invalid entries, run()
\* returns without entering its loop: the callback is never invoked and
\* nothing is scheduled.
C13_NoValidScheduleNoRun ==
    (\A i \in 1..Len(sched_in) :
        LET t == sched_in[i]
        IN  \/ Len(t) # 2
            \/ \E k \in 1..Len(t) : ~t[k].int
            \/ t[1].v \notin 0..23
            \/ t[2].v \notin 0..59) =>
        /\ spc \in {"none", "constructed", "returned"}
        /\ cycles = 0
        /\ fired = 0
        /\ queue = << >>

C13_Witness ==
    /\ spc = "returned" /\ Len(sched_in) = 4 /\ schedule = << >>
    /\ fired = 0 /\ cycles = 0 /\ queue = << >>

\* C14: in each iteration of run() the wake time lies within
\* [nominal - jitter minutes, nominal + jitter minutes], and the callback is
\* invoked exactly once for that iteration before the next event is computed;
\* the first iteration fires within that window.
C14_WakeWithinJitterFiresOnce ==
    /\ cycles >= 1 =>
        /\ next_time - sjitter * 60 <= wake
        /\ wake <= next_time + sjitter * 60
    /\ spc = "pending" => (fired = cycles - 1 /\ queue = << wake >>)
    /\ spc \in {"callback", "loop"} => (fired = cycles /\ queue = << >>)
    /\ (cycles = 1 /\ fired = 1) =>
        /\ next_time - sjitter * 60 <= firedAt
        /\ firedAt <= next_time + sjitter * 60

C14_Witness ==
    /\ schedule = << << 9, 0 >> >> /\ sjitter = 10
    /\ cycles = 1 /\ fired = 1 /\ spc = "callback"
    /\ next_time = combine(0, << 9, 0 >>)
    /\ wake = combine(0, << 8, 50 >>)
    /\ firedAt = combine(0, << 8, 59 >>)

\* C20: each next event is computed from the nominal event before it, and the
\* nominal event times are strictly increasing: no slot is fired twice.
C20_NominalStrictlyIncreasing ==
    cycles >= 2 => (nev[2] = prev_nominal /\ next_time > prev_nominal)

\* C19: with a non-empty table run() never leaves its loop: after every
\* return of the callback a next event is computed and entered, and (the clock
\* advancing and the callback returning) the callback is invoked again and
\* again, as many times as the loop is followed.
C19_CallbackRecurs ==
    /\ [](schedule # << >> => spc # "returned")
    /\ []((spc = "loop" /\ cycles < MaxCycles) => <>(spc = "pending"))
    /\ [](spc = "pending" => <>(spc = "callback"))
    /\ []((spc = "constructed" /\ schedule # << >>) => <>(fired = MaxCycles))

C19_Witness ==
    /\ schedule # << >> /\ spc = "loop"
    /\ cycles = MaxCycles /\ fired = MaxCycles

\* C17: no failure ends a one-shot operation with an unhandled error: when the
\* token fetch or the POST fails, set_url returns a zero or empty (falsy)
\* result instead of raising, and display_random_favorite returns 0 on any
\* failure.
C17_FailureGivesFalsyResult ==
    lres.failed => (~lres.raised /\ lres.value \in {"0", "False", ""})

\* C18: favorites() never returns more than MAX_FAVORITES_FOR_DISPLAY items,
\* whatever the sizes of the pages.
C18_FavoritesAtMostMax ==
    lres.op = "favorites" => lres.n <= MAX_FAVORITES_FOR_DISPLAY

\* C21: check_request_rate() sets last_request_time to the current time after
\* its wait: when a call of it has just returned, last_request_time is the
\* time of that return.
C21_LastRequestTimeUpdated ==
    (pc # "idle" /\ since = 0) => last_request_time = clock

\* C22: a response with status >= 500 is handled like a transport failure: it
\* is followed by a retry while retries remain, and when the last attempt
\* (index NUM_RETRIES) still gets a status >= 500, request_with_retries returns
\* None, never the 5xx response.
C22_ServerErrorIsRetried ==
    /\ rwrRet.done =>
          (rwrRet.result = None \/ rwrRet.result.status < 500)
    /\ (rwrRet.done /\ rwrRet.last # None /\ rwrRet.last.status >= 500) =>
          /\ rwrRet.n = NUM_RETRIES + 1
          /\ rwrRet.sleeps = NUM_RETRIES
          /\ rwrRet.result = None
    /\ (att.n >= 1 /\ att.first # None /\ att.first.status >= 500) =>
          (sleeps = att.n /\ retries = att.n)

C22_Witness ==
    /\ rwrRet.done /\ rwrRet.n = NUM_RETRIES + 1 /\ rwrRet.result = None
    /\ rwrRet.first # None /\ rwrRet.first.status >= 500
    /\ rwrRet.last # None /\ rwrRet.last.status >= 500

\* the sign-in of the current call is over
SigninOver ==
    call.signins = 1 /\ pc \in {"idle", "api_req"}

\* C23: signin() aborts without posting the credentials when the fetch of the
\* login page fails, is answered with a status other than 200, or gives an
\* empty token: no POST to the sign-in URL is issued and the session is None
\* after signin().
C23_NoPostWithoutToken ==
    /\ (SigninOver /\ call.token = "") =>
          /\ call.postAttempts = 0
          /\ ~session.present
          /\ call.css = "False"
    /\ (pc = "login_post" \/ call.postAttempts > 0) => call.token # ""
    /\ (pc = "idle" /\ rwrRet.done /\ call.signins = 1 /\ call.postAttempts = 0
          /\ call.apiAttempts = 0) =>
          (rwrRet.result = None \/ rwrRet.result.status # 200
             \/ rwrRet.result.body # "good") = (call.token = "")

C23_Witness ==
    /\ SigninOver /\ call.token = "" /\ call.postAttempts = 0
    /\ rwrRet.done /\ rwrRet.result # None /\ rwrRet.result.status # 200
    /\ ~session.present

\* C24: signin() sets last_signin_time to the current time if and only if the
\* login POST returned 200; after any failed signin the session is None and
\* last_signin_time is what it was, so the next check_signin_status() signs in
\* again.
C24_SigninTimeOnlyOnSuccess ==
    /\ (SigninOver /\ call.posted = 200) =>
          /\ session.present /\ session.login
          /\ call.css = "True"
          /\ (rwrRet.done /\ call.apiAttempts = 0) => last_signin_time = clock
          /\ (pc = "api_req" /\ att.n = 0) => last_signin_time = clock
    /\ (SigninOver /\ call.posted # 200) =>
          /\ ~session.present
          /\ last_signin_time = call.lstBefore
          /\ NeedsSignin(session, clock - last_signin_time)
    /\ (CallMade /\ call.signins = 0) => last_signin_time = call.lstBefore

C24_Witness ==
    /\ SigninOver /\ call.postAttempts > 0 /\ call.posted # 200
    /\ call.lstBefore > 0 /\ clock > call.lstBefore + SigninInterval
    /\ last_signin_time = call.lstBefore /\ ~session.present

\* C25: post_with_authenticity does its steps in order: the GET of the page
\* (throttled, with retries) is over before any POST; the POST is issued only
\* with a non-empty token; the POST is throttled and retried as well; one call
\* makes at most NUM_RETRIES + 1 GET attempts and then at most NUM_RETRIES + 1
\* POST attempts.
C25_GetThenPost ==
    /\ [](/\ call.signinAttempts - call.postAttempts <= NUM_RETRIES + 1
          /\ call.postAttempts <= NUM_RETRIES + 1
          /\ pc = "token_get" => call.postAttempts = 0
          /\ (pc = "login_post" \/ call.postAttempts > 0) =>
                (call.token # "" /\ call.signinAttempts > call.postAttempts)
          /\ netGap = 0)
    /\ [][(pc = "login_post" /\ call'.signins = call.signins
             /\ call'.css = call.css /\ call.css = "none") =>
             (call'.signinAttempts - call'.postAttempts
                = call.signinAttempts - call.postAttempts)]_vars

C25_Witness ==
    /\ call.signinAttempts - call.postAttempts = NUM_RETRIES + 1
    /\ call.postAttempts = 2
    /\ call.token # "" /\ call.posted = 200 /\ SigninOver

\* EO_Net.make_request has just returned
NetRequestOver ==
    pc = "idle" /\ rwrRet.done /\ call.apiAttempts > 0

\* C29: EO_Net.make_request never raises and returns None on every error: when
\* the retries are exhausted, when the final status is outside [200, 300), and
\* (with parse_json) when the body is not JSON; a JSON parse failure gives an
\* absent result and no further network attempt.
C29_NetRequestNeverRaises ==
    NetRequestOver =>
        /\ call.result \in {"None", "response", "json"}
        /\ call.apiAttempts = rwrRet.n
        /\ rwrRet.result = None => call.result = "None"
        /\ (rwrRet.result # None /\ rwrRet.result.status \notin 200..299) =>
              call.result = "None"
        /\ (rwrRet.result # None /\ rwrRet.result.status \in 200..299) =>
              /\ ~call.parse_json => call.result = "response"
              /\ (call.parse_json /\ rwrRet.result.body = "good") =>
                    call.result = "json"
              /\ (call.parse_json /\ rwrRet.result.body # "good") =>
                    (call.result = "None" /\ rwrRet.result = rwrRet.last)

C29_Witness ==
    /\ NetRequestOver /\ call.parse_json /\ call.result = "None"
    /\ rwrRet.result # None /\ rwrRet.result.status = 200
    /\ rwrRet.result.body # "good" /\ rwrRet.n = 2

\* C26: when the jittered wake time is earlier than the current time, the
\* iteration is not skipped and no sleep happens: the callback is invoked at
\* once, exactly once, for that event.
C26_PastWakeFiresAtOnce ==
    [][(spc = "pending" /\ wake < now) =>
          /\ spc' = "callback"
          /\ now' = now
          /\ firedAt' = now
          /\ fired' = fired + 1
          /\ fired' = cycles
          /\ queue = << wake >> /\ queue' = << >>]_vars

C26_Witness ==
    /\ spc = "callback" /\ cycles = 2 /\ fired = 2
    /\ wake < firedAt /\ firedAt < next_time /\ now = firedAt

\* C27: ingest_schedule keeps exactly the entries that parse as HH:MM with
\* 0 <= HH <= 23 and 0 <= MM <= 59, drops every other entry without raising,
\* and stores the kept times sorted ascending.
C27_IngestKeepsValidSorted ==
    spc # "none" =>
        /\ \A i \in 1..(Len(schedule) - 1) :
               \/ schedule[i][1] < schedule[i + 1][1]
               \/ /\ schedule[i][1] = schedule[i + 1][1]
                  /\ schedule[i][2] <= schedule[i + 1][2]
        /\ \A h \in -1..25, m \in -1..60 :
               Cardinality({i \in 1..Len(schedule) : schedule[i] = << h, m >>})
                 = IF h \in 0..23 /\ m \in 0..59
                   THEN Cardinality({i \in 1..Len(sched_in) :
                            sched_in[i] = << [int |-> TRUE, v |-> h],
                                             [int |-> TRUE, v |-> m] >>})
                   ELSE 0
        /\ \A i \in 1..Len(schedule) :
               schedule[i][1] \in 0..23 /\ schedule[i][2] \in 0..59

C27_Witness ==
    /\ Len(sched_in) = 6
    /\ schedule = << << 7, 30 >>, << 12, 0 >> >>
    /\ spc = "loop"

\* C28: the next iteration of run() is computed only after the callback of the
\* current one has returned: at most one event is pending at any time and
\* invocations of the callback never overlap, so a long callback delays the
\* later triggers.
C28_OneEventAtATime ==
    /\ [](/\ Len(queue) <= 1
          /\ spc \in {"callback", "loop"} => (queue = << >> /\ fired = cycles)
          /\ spc = "pending" => fired = cycles - 1)
    /\ [][cycles' # cycles => (spc = "loop" /\ fired = cycles)]_vars
    /\ [][fired' # fired => (spc = "pending" /\ spc' = "callback")]_vars

C28_Witness ==
    /\ spc = "callback" /\ cycles = 2 /\ fired = 2 /\ queue = << >>
    /\ firedAt > next_time + sjitter * 60

====
